---- MODULE Spec2Model ----
(***************************************************************************)
(* Model of gridappsd-alarms.py: the bootstrap in _main (four bulk         *)
(* metadata round trips, index build, construction, subscription) and the  *)
(* correlation engine SimulationSubscriber.on_message (command events on   *)
(* the input topic, measurement events on the output topic).               *)
(*                                                                         *)
(* Python dicts are modelled as functions over their key set; the          *)
(* measurement directory, whose iteration order the code depends on, is a  *)
(* sequence of records in insertion order.  A phase string is the sequence *)
(* of its letters, so that string concatenation is \o.  A raised exception *)
(* is a "fault" flag: the mutations made before the raise are kept.        *)
(***************************************************************************)
EXTENDS Integers, Sequences, FiniteSets, TLC

VARIABLES
    pc,                 \* position of _main
    equipment_dict,     \* local of _main, then SimulationSubscriber.equipment_dict
    measurement_dict,   \* local of _main, then SimulationSubscriber.measurement_dict
    meas_eq_map,        \* measurement id -> equipment id
    eq_phases_map,      \* equipment id -> phases
    maps_bound,         \* TRUE once the locals meas_eq_map, eq_phases_map are assigned
    constructed,        \* TRUE once the SimulationSubscriber object exists
    subscriptions,      \* topics gapps.subscribe was called for
    caught,             \* the exception the try block of _main raised, or "none"
    log_sent,           \* messages Logger.log handed to gapps.send
    input_map,          \* Pending Command Table
    measurement_value,  \* Measurement Snapshot
    sent,               \* every message handed to gapps.send on the alarm topic
    next_uid,           \* identity of the next command dict created
    calls,              \* number of on_message calls made
    last,               \* the last on_message call: its event and how it ended
    conc                \* on_message calls in progress on separate threads

vars == <<pc, equipment_dict, measurement_dict, meas_eq_map, eq_phases_map,
          maps_bound, constructed, subscriptions, caught, log_sent, input_map,
          measurement_value, sent, next_uid, calls, last, conc>>

index_vars == <<equipment_dict, measurement_dict, meas_eq_map, eq_phases_map>>
main_vars == <<pc, maps_bound, constructed, subscriptions, caught, log_sent>>
engine_vars == <<input_map, measurement_value, sent, next_uid, calls, last, conc>>

(***************************************************************************)
(* Bounds                                                                  *)
(***************************************************************************)
MaxCalls == 4           \* on_message calls per run
MaxItems == 1           \* forward differences per command event

(***************************************************************************)
(* Finite functions as Python dicts                                        *)
(***************************************************************************)
EmptyDict == [k \in {} |-> 0]

DictPut(d, k, v) == [x \in (DOMAIN d) \cup {k} |-> IF x = k THEN v ELSE d[x]]

DictDel(d, k) == [x \in (DOMAIN d) \ {k} |-> d[x]]

(***************************************************************************)
(* The data the power-grid model service can answer with                   *)
(***************************************************************************)
Cap1 == [id |-> "E1", name |-> "cap1"]
Sw2 == [id |-> "E2", name |-> "sw2"]

M1 == [measid |-> "M1", type |-> "Pos", eqid |-> "E1", phases |-> <<"A">>]
M2 == [measid |-> "M2", type |-> "Pos", eqid |-> "E1", phases |-> <<"B">>]
MV == [measid |-> "MV", type |-> "PNV", eqid |-> "E1", phases |-> <<"A">>]
M3 == [measid |-> "M3", type |-> "Pos", eqid |-> "E2", phases |-> <<"A">>]
\* a position measurement of an equipment that no query returned
M3x == [measid |-> "M3", type |-> "Pos", eqid |-> "E3", phases |-> <<"C">>]
\* a record without the 'eqid' key
MBad == [measid |-> "M3", type |-> "Pos", eqid |-> "<missing>", phases |-> <<"A">>]

CapResponses == {<< >>, <<Cap1>>}
SwitchResponses == {<< >>, <<Sw2>>}
CapMeasResponses == {<<M1, MV>>, <<M1, M3x, M2, MV>>, <<M1, MBad>>}
SwitchMeasResponses == {<< >>, <<M3>>}

\* the answers of the four round trips behind the engine runs explored:
\* one where every measurement resolves and every equipment has phases
\* (M1 of E1, M3 of E2), one where E1 has two measurements, M3 belongs to no
\* known equipment and E2 has no position measurement
EngineBoots ==
    {[caps |-> <<Cap1>>, sws |-> <<Sw2>>, cm |-> <<M1, MV>>, sm |-> <<M3>>],
     [caps |-> <<Cap1>>, sws |-> <<Sw2>>, cm |-> <<M1, M3x, M2, MV>>, sm |-> << >>]}

EquipmentIds == {"E1", "E2"}
MeasIds == {"M1", "M2", "M3"}

(***************************************************************************)
(* _main, lines 204-265                                                    *)
(***************************************************************************)
\* for x in response["data"]: equipment_dict[x["id"]] = x
RECURSIVE AddEquipment(_, _)
AddEquipment(dict, data) ==
    IF data = << >> THEN dict
    ELSE AddEquipment(DictPut(dict, Head(data).id, Head(data)), Tail(data))

\* position of key k in an insertion-ordered dict, 0 when absent
RECURSIVE KeyPos(_, _, _)
KeyPos(dict, k, i) ==
    IF i > Len(dict) THEN 0
    ELSE IF dict[i].measid = k THEN i
    ELSE KeyPos(dict, k, i + 1)

\* dict[k] = v on an insertion-ordered dict: a present key keeps its place
OrderedPut(dict, v) ==
    IF KeyPos(dict, v.measid, 1) = 0 THEN Append(dict, v)
    ELSE [dict EXCEPT ![KeyPos(dict, v.measid, 1)] = v]

\* for m in response["data"]: if m["type"] == "Pos": measurement_dict[m["measid"]] = m
RECURSIVE AddMeasurements(_, _)
AddMeasurements(dict, data) ==
    IF data = << >> THEN dict
    ELSE AddMeasurements(IF Head(data).type = "Pos"
                            THEN OrderedPut(dict, Head(data))
                            ELSE dict,
                         Tail(data))

\* the body of the outer loop of lines 258-265 for one measurement; the
\* inner loop matches at most one key of equipment_dict, and reading a
\* missing 'eqid' raises as soon as the inner loop runs once
IndexStep(st, m, eqs) ==
    IF eqs = EmptyDict THEN st
    ELSE IF m.eqid = "<missing>" THEN [st EXCEPT !.fault = TRUE]
    ELSE IF m.eqid \notin DOMAIN eqs THEN st
    ELSE [st EXCEPT
            !.phases = DictPut(@, m.eqid,
                               IF m.eqid \in DOMAIN @
                                  THEN @[m.eqid] \o m.phases
                                  ELSE m.phases),
            !.meas_eq = DictPut(@, m.measid, m.eqid)]

RECURSIVE IndexLoop(_, _, _)
IndexLoop(st, meas, eqs) ==
    IF meas = << >> \/ st.fault THEN st
    ELSE IndexLoop(IndexStep(st, Head(meas), eqs), Tail(meas), eqs)

BuildIndex(eqs, meas) ==
    IndexLoop([meas_eq |-> EmptyDict, phases |-> EmptyDict, fault |-> FALSE],
              meas, eqs)

(***************************************************************************)
(* Events delivered to on_message                                          *)
(***************************************************************************)
TrackedAttributes == {"ShuntCompensator.sections", "Switch.open"}
Attributes == TrackedAttributes \cup {"RegulatingControl.mode"}
Objects == EquipmentIds \cup {"E3"}
CmdValues == {0, 1}
Actors == {"sim-control", "operator"}
MeasValues == {0, 1}
\* message["message"]["timestamp"] of the event handled by the n-th call
Timestamp(n) == 1000 * n

\* forward differences: a tracked attribute of E1 set to 1, a tracked
\* attribute of E2 set to 0, an untracked attribute, an object that is no
\* equipment
CmdItems ==
    [object : {"E1"}, attribute : {"ShuntCompensator.sections"}, value : {1}]
    \cup [object : {"E2"}, attribute : {"Switch.open"}, value : {0}]
    \cup [object : {"E1"}, attribute : Attributes \ TrackedAttributes, value : {1}]
    \cup [object : Objects \ EquipmentIds, attribute : {"Switch.open"}, value : {1}]

ItemSeqs == UNION {[1..n -> CmdItems] : n \in 0..MaxItems}

\* the ids the engine scans: the keys of measurement_dict
Tracked == {measurement_dict[i].measid : i \in DOMAIN measurement_dict}

\* message["message"]["measurements"] restricted to the tracked ids: an event
\* reports every tracked measurement or lacks one of them
MeasMaps ==
    UNION {[S -> MeasValues] :
              S \in {T \in SUBSET Tracked : Cardinality(Tracked \ T) <= 1}}

\* the measurements of an event: the tracked ones it reports and the voltage
\* measurement MV, which the index build dropped
Measurements(mm) == mm @@ ("MV" :> 1)

(***************************************************************************)
(* SimulationSubscriber.on_message, lines 115-125: the command loop        *)
(***************************************************************************)
NormalizeValue(v) == IF v = 1 THEN "Open" ELSE "Close"

\* CommandStep without the attribute test of line 118
CommandStep_AnyAttribute(st, item, actor) ==
    IF item.object \notin DOMAIN equipment_dict THEN st
    ELSE IF item.object \notin DOMAIN eq_phases_map
            THEN [st EXCEPT !.fault = TRUE]
    ELSE [st EXCEPT
            !.input_map = DictPut(@, item.object,
                [equipment_mrid |-> item.object,
                 value |-> NormalizeValue(item.value),
                 created_by |-> actor,
                 equipment_name |-> equipment_dict[item.object].name,
                 phases |-> eq_phases_map[item.object],
                 uid |-> st.next_uid]),
            !.next_uid = @ + 1]

\* one forward difference; eq_phases_map[item["object"]] raises KeyError
\* for an equipment that no position measurement refers to
CommandStep(st, item, actor) ==
    IF item.object \notin DOMAIN equipment_dict THEN st
    ELSE IF item.attribute \notin TrackedAttributes THEN st
    ELSE IF item.object \notin DOMAIN eq_phases_map
            THEN [st EXCEPT !.fault = TRUE]
    ELSE [st EXCEPT
            !.input_map = DictPut(@, item.object,
                [equipment_mrid |-> item.object,
                 value |-> NormalizeValue(item.value),
                 created_by |-> actor,
                 equipment_name |-> equipment_dict[item.object].name,
                 phases |-> eq_phases_map[item.object],
                 uid |-> st.next_uid]),
            !.next_uid = @ + 1]

RECURSIVE CommandLoop(_, _, _)
CommandLoop(st, items, actor) ==
    IF items = << >> \/ st.fault THEN st
    ELSE CommandLoop(CommandStep(st, Head(items), actor), Tail(items), actor)

(***************************************************************************)
(* SimulationSubscriber.on_message, lines 128-142: the measurement scan    *)
(***************************************************************************)
\* alarm = self.input_map[e]; del self.input_map[e]; alarm["timestamp"] = ts
Stamp(cmd, ts) ==
    [equipment_mrid |-> cmd.equipment_mrid, value |-> cmd.value,
     created_by |-> cmd.created_by, equipment_name |-> cmd.equipment_name,
     phases |-> cmd.phases, uid |-> cmd.uid, timestamp |-> ts]

\* Resolve without line 140: the matched command stays in the table
Resolve_KeepsEntry(st, m, ts) ==
    IF m \notin DOMAIN meas_eq_map THEN [st EXCEPT !.fault = TRUE]
    ELSE IF meas_eq_map[m] \notin DOMAIN st.input_map THEN st
    ELSE [st EXCEPT
            !.alarm_list = Append(@, Stamp(st.input_map[meas_eq_map[m]], ts))]

\* Resolve that empties the table instead of deleting one key (line 140)
Resolve_ClearsTable(st, m, ts) ==
    IF m \notin DOMAIN meas_eq_map THEN [st EXCEPT !.fault = TRUE]
    ELSE IF meas_eq_map[m] \notin DOMAIN st.input_map THEN st
    ELSE [st EXCEPT
            !.input_map = EmptyDict,
            !.alarm_list = Append(@, Stamp(st.input_map[meas_eq_map[m]], ts))]

\* lines 137-142, after the snapshot of m was updated
Resolve(st, m, ts) ==
    IF m \notin DOMAIN meas_eq_map THEN [st EXCEPT !.fault = TRUE]
    ELSE IF meas_eq_map[m] \notin DOMAIN st.input_map THEN st
    ELSE [st EXCEPT
            !.input_map = DictDel(@, meas_eq_map[m]),
            !.alarm_list = Append(@, Stamp(st.input_map[meas_eq_map[m]], ts))]

\* ScanStep that treats a first observation as a change
ScanStep_ResolvesFirst(st, m, msg) ==
    IF m \notin DOMAIN msg.measurements THEN [st EXCEPT !.fault = TRUE]
    ELSE IF m \in DOMAIN st.measurement_value
            /\ st.measurement_value[m] = msg.measurements[m] THEN st
    ELSE Resolve([st EXCEPT !.measurement_value = DictPut(@, m, msg.measurements[m])],
                 m, msg.timestamp)

\* ScanStep without the comparison of line 134
ScanStep_NoCompare(st, m, msg) ==
    IF m \notin DOMAIN msg.measurements THEN [st EXCEPT !.fault = TRUE]
    ELSE IF m \notin DOMAIN st.measurement_value
            THEN [st EXCEPT !.measurement_value = DictPut(@, m, msg.measurements[m])]
    ELSE Resolve([st EXCEPT !.measurement_value = DictPut(@, m, msg.measurements[m])],
                 m, msg.timestamp)

\* ScanStep without the snapshot update of line 136
ScanStep_KeepsOld(st, m, msg) ==
    IF m \notin DOMAIN msg.measurements THEN [st EXCEPT !.fault = TRUE]
    ELSE IF m \notin DOMAIN st.measurement_value
            THEN [st EXCEPT !.measurement_value = DictPut(@, m, msg.measurements[m])]
    ELSE IF st.measurement_value[m] = msg.measurements[m] THEN st
    ELSE Resolve(st, m, msg.timestamp)

\* lines 131-142 for one tracked measurement; reading the value of a
\* measurement the event does not carry raises KeyError
ScanStep(st, m, msg) ==
    IF m \notin DOMAIN msg.measurements THEN [st EXCEPT !.fault = TRUE]
    ELSE IF m \notin DOMAIN st.measurement_value
            THEN [st EXCEPT !.measurement_value = DictPut(@, m, msg.measurements[m])]
    ELSE IF st.measurement_value[m] = msg.measurements[m] THEN st
    ELSE Resolve([st EXCEPT !.measurement_value = DictPut(@, m, msg.measurements[m])],
                 m, msg.timestamp)

RECURSIVE ScanLoop(_, _, _)
ScanLoop(st, meas, msg) ==
    IF meas = << >> \/ st.fault THEN st
    ELSE ScanLoop(ScanStep(st, Head(meas).measid, msg), Tail(meas), msg)

(***************************************************************************)
(* on_message as a whole, lines 115-146                                    *)
(***************************************************************************)
\* on_message whose alarm list starts with the command just recorded instead
\* of empty (line 128)
OnMessage_AlarmsOnCommand(dest, actor, items, msg) ==
    LET c == IF dest = "input"
                THEN CommandLoop([input_map |-> input_map, next_uid |-> next_uid,
                                  fault |-> FALSE], items, actor)
                ELSE [input_map |-> input_map, next_uid |-> next_uid,
                      fault |-> FALSE]
        recorded == {e \in DOMAIN c.input_map :
                        c.input_map[e].uid = c.next_uid - 1
                        /\ c.next_uid > next_uid}
        s0 == [measurement_value |-> measurement_value, input_map |-> c.input_map,
               alarm_list |-> IF recorded = {} THEN << >>
                              ELSE <<Stamp(c.input_map[CHOOSE e \in recorded : TRUE],
                                           msg.timestamp)>>,
               fault |-> c.fault]
        s == IF dest = "output" /\ ~c.fault
                THEN ScanLoop(s0, measurement_dict, msg)
                ELSE s0
    IN  [input_map |-> s.input_map, measurement_value |-> s.measurement_value,
         next_uid |-> c.next_uid, alarm_list |-> s.alarm_list, fault |-> s.fault,
         publish |-> ~s.fault /\ Len(s.alarm_list) # 0]

\* the handler's local and object state when it returns or raises
OnMessage(dest, actor, items, msg) ==
    LET c == IF dest = "input"
                THEN CommandLoop([input_map |-> input_map, next_uid |-> next_uid,
                                  fault |-> FALSE], items, actor)
                ELSE [input_map |-> input_map, next_uid |-> next_uid,
                      fault |-> FALSE]
        s0 == [measurement_value |-> measurement_value, input_map |-> c.input_map,
               alarm_list |-> << >>, fault |-> c.fault]
        s == IF dest = "output" /\ ~c.fault
                THEN ScanLoop(s0, measurement_dict, msg)
                ELSE s0
    IN  [input_map |-> s.input_map, measurement_value |-> s.measurement_value,
         next_uid |-> c.next_uid, alarm_list |-> s.alarm_list, fault |-> s.fault,
         publish |-> ~s.fault /\ Len(s.alarm_list) # 0]

Deliver(dest, actor, items, msg) ==
    /\ pc = "loop"
    /\ dest \in subscriptions
    /\ calls < MaxCalls
    /\ LET r == OnMessage(dest, actor, items, msg)
       IN  /\ input_map' = r.input_map
           /\ measurement_value' = r.measurement_value
           /\ next_uid' = r.next_uid
           /\ sent' = IF r.publish THEN Append(sent, r.alarm_list) ELSE sent
           /\ last' = [kind |-> dest, items |-> items, fault |-> r.fault,
                       publishes |-> IF r.publish THEN 1 ELSE 0,
                       alarm_list |-> r.alarm_list,
                       baselined |-> DOMAIN r.measurement_value
                                        \ DOMAIN measurement_value,
                       changed |-> {m \in DOMAIN measurement_value :
                                       r.measurement_value[m] # measurement_value[m]}]
    /\ calls' = calls + 1
    /\ conc' = conc
    /\ UNCHANGED <<index_vars, main_vars>>

NoMsg == [timestamp |-> 0, measurements |-> EmptyDict]

\* the measurement event the next call can be given
OutputMsg(mm) ==
    [timestamp |-> Timestamp(calls + 1), measurements |-> Measurements(mm)]

\* a command-applied event arrives on the simulation input topic
InputEvent ==
    \E actor \in Actors, items \in ItemSeqs :
        Deliver("input", actor, items, NoMsg)

\* a measurement-output event arrives on the simulation output topic
OutputEvent ==
    \E mm \in MeasMaps :
        Deliver("output", "simulation", << >>, OutputMsg(mm))

(***************************************************************************)
(* The engine after a bootstrap that raised nothing                        *)
(***************************************************************************)
NoCall == [kind |-> "none", items |-> << >>, fault |-> FALSE, publishes |-> 0, alarm_list |-> << >>,
           baselined |-> {}, changed |-> {}]

\* no call in progress
NoConc == [threads |-> << >>, base |-> << >>]

EngineFresh ==
    /\ conc = NoConc
    /\ input_map = EmptyDict
    /\ measurement_value = EmptyDict
    /\ sent = << >>
    /\ next_uid = 1
    /\ calls = 0
    /\ last = NoCall

Init ==
    /\ \E b \in EngineBoots :
        LET eqs == AddEquipment(AddEquipment(EmptyDict, b.caps), b.sws)
            meas == AddMeasurements(AddMeasurements(<< >>, b.cm), b.sm)
            idx == BuildIndex(eqs, meas)
        IN  /\ ~idx.fault
            /\ equipment_dict = eqs
            /\ measurement_dict = meas
            /\ meas_eq_map = idx.meas_eq
            /\ eq_phases_map = idx.phases
    /\ pc = "loop"
    /\ maps_bound = TRUE
    /\ constructed = TRUE
    /\ subscriptions = {"input", "output"}
    /\ caught = "none"
    /\ log_sent = << >>
    /\ EngineFresh

Next == InputEvent \/ OutputEvent

Spec == Init /\ [][Next]_vars

(***************************************************************************)
(* Logger.log, lines 157-168, and _main, lines 198-279                     *)
(***************************************************************************)
\* json.dumps accepts strings and numbers, not exception objects
JsonSerializable(x) == x.kind = "str"

\* Logger.log(logLevel, message, processStatus): what gapps.send is given, or
\* the TypeError of json.dumps
Log(logLevel, message, processStatus) ==
    IF JsonSerializable(message)
        THEN [raised |-> FALSE,
              out |-> <<[logLevel |-> logLevel, logMessage |-> message.text,
                         processStatus |-> processStatus]>>]
        ELSE [raised |-> TRUE, out |-> << >>]

\* gapps.get_response(...) raises inside the try block
Raise(e) ==
    /\ caught' = e
    /\ pc' = "except"
    /\ UNCHANGED <<index_vars, maps_bound, constructed, subscriptions, log_sent,
                   engine_vars>>

\* lines 207-216
QueryCapacitors ==
    /\ pc = "q1"
    /\ \/ Raise("TimeoutError")
       \/ \E data \in CapResponses :
            /\ equipment_dict' = AddEquipment(equipment_dict, data)
            /\ pc' = "q2"
            /\ UNCHANGED <<measurement_dict, meas_eq_map, eq_phases_map, maps_bound,
                           constructed, subscriptions, caught, log_sent, engine_vars>>

\* lines 218-227
QuerySwitches ==
    /\ pc = "q2"
    /\ \/ Raise("TimeoutError")
       \/ \E data \in SwitchResponses :
            /\ equipment_dict' = AddEquipment(equipment_dict, data)
            /\ pc' = "q3"
            /\ UNCHANGED <<measurement_dict, meas_eq_map, eq_phases_map, maps_bound,
                           constructed, subscriptions, caught, log_sent, engine_vars>>

\* lines 232-241
QueryCapacitorMeasurements ==
    /\ pc = "q3"
    /\ \/ Raise("TimeoutError")
       \/ \E data \in CapMeasResponses :
            /\ measurement_dict' = AddMeasurements(measurement_dict, data)
            /\ pc' = "q4"
            /\ UNCHANGED <<equipment_dict, meas_eq_map, eq_phases_map, maps_bound,
                           constructed, subscriptions, caught, log_sent, engine_vars>>

\* lines 243-252
QuerySwitchMeasurements ==
    /\ pc = "q4"
    /\ \/ Raise("TimeoutError")
       \/ \E data \in SwitchMeasResponses :
            /\ measurement_dict' = AddMeasurements(measurement_dict, data)
            /\ pc' = "build"
            /\ UNCHANGED <<equipment_dict, meas_eq_map, eq_phases_map, maps_bound,
                           constructed, subscriptions, caught, log_sent, engine_vars>>

\* lines 256-265: the two maps are assigned, then filled until the loop ends
\* or a record without 'eqid' raises KeyError
IndexBuild ==
    /\ pc = "build"
    /\ LET idx == BuildIndex(equipment_dict, measurement_dict)
       IN  /\ maps_bound' = TRUE
           /\ meas_eq_map' = idx.meas_eq
           /\ eq_phases_map' = idx.phases
           /\ caught' = IF idx.fault THEN "KeyError" ELSE caught
           /\ pc' = IF idx.fault THEN "except" ELSE "construct"
    /\ UNCHANGED <<equipment_dict, measurement_dict, constructed, subscriptions,
                   log_sent, engine_vars>>

\* lines 271-272: logger.log("ERROR", e, "ERROR") with the exception object
\* itself as the message; an exception raised here leaves _main
ExceptClause ==
    /\ pc = "except"
    /\ LET l == Log("ERROR", [kind |-> "exception", text |-> caught], "ERROR")
       IN  /\ log_sent' = log_sent \o l.out
           /\ pc' = IF l.raised THEN "crashed" ELSE "construct"
    /\ UNCHANGED <<index_vars, maps_bound, constructed, subscriptions, caught,
                   engine_vars>>

\* line 274: reading the locals meas_eq_map and eq_phases_map raises
\* UnboundLocalError when lines 256-257 were never reached
Construct ==
    /\ pc = "construct"
    /\ constructed' = maps_bound
    /\ pc' = IF maps_bound THEN "sub1" ELSE "crashed"
    /\ UNCHANGED <<index_vars, maps_bound, subscriptions, caught, log_sent,
                   engine_vars>>

\* line 275
SubscribeInput ==
    /\ pc = "sub1"
    /\ subscriptions' = subscriptions \cup {"input"}
    /\ pc' = "sub2"
    /\ UNCHANGED <<index_vars, maps_bound, constructed, caught, log_sent,
                   engine_vars>>

\* line 276, after which _main sleeps in its loop
SubscribeOutput ==
    /\ pc = "sub2"
    /\ subscriptions' = subscriptions \cup {"output"}
    /\ pc' = "loop"
    /\ UNCHANGED <<index_vars, maps_bound, constructed, caught, log_sent,
                   engine_vars>>

\* _main at the start of its try block, lines 204-205 done
InitMain ==
    /\ pc = "q1"
    /\ equipment_dict = EmptyDict
    /\ measurement_dict = << >>
    /\ meas_eq_map = EmptyDict
    /\ eq_phases_map = EmptyDict
    /\ maps_bound = FALSE
    /\ constructed = FALSE
    /\ subscriptions = {}
    /\ caught = "none"
    /\ log_sent = << >>
    /\ EngineFresh

NextMain ==
    \/ QueryCapacitors
    \/ QuerySwitches
    \/ QueryCapacitorMeasurements
    \/ QuerySwitchMeasurements
    \/ IndexBuild
    \/ ExceptClause
    \/ Construct
    \/ SubscribeInput
    \/ SubscribeOutput

SpecMain == InitMain /\ [][NextMain]_vars

(***************************************************************************)
(* on_message called on two threads at once.  The method takes no lock, so *)
(* the calls interleave between any two accesses of self.input_map and     *)
(* self.measurement_value; the tests of lines 117-124 and the lookup of    *)
(* line 137 read only the index, which no call writes.                     *)
(***************************************************************************)
\* the items the command loop records
AcceptedItems ==
    {it \in CmdItems : /\ it.object \in DOMAIN equipment_dict
                       /\ it.attribute \in TrackedAttributes}

\* the events the n-th call can be given: a command event with one recorded
\* item, or a measurement event that reports every tracked measurement
ConcEvents(n) ==
    {[kind |-> "input", actor |-> a, items |-> <<it>>, msg |-> NoMsg] :
        a \in Actors, it \in AcceptedItems}
    \cup {[kind |-> "output", actor |-> "simulation", items |-> << >>,
           msg |-> [timestamp |-> Timestamp(n),
                    measurements |-> Measurements(mm)]] :
            mm \in [Tracked -> MeasValues]}

\* a call at its first statement, with its locals
Thread(ev) ==
    [pc |-> IF ev.kind = "input" THEN "cmd" ELSE "scan", ev |-> ev, i |-> 1,
     alarm |-> << >>, alarm_list |-> << >>]

Ended(t) == t.pc \in {"done", "raised"}

\* no call is in progress
Quiescent == \A k \in DOMAIN conc.threads : Ended(conc.threads[k])

\* what the calls about to start find
Shared ==
    [input_map |-> input_map, measurement_value |-> measurement_value,
     next_uid |-> next_uid, sent |-> sent, raised |-> 0]

\* the host hands one event to a thread, or two events to two threads
Start ==
    /\ pc = "loop"
    /\ Quiescent
    /\ \E evs \in {<<a>> : a \in ConcEvents(calls + 1)}
                  \cup {<<a, b>> : a \in ConcEvents(calls + 1),
                                   b \in ConcEvents(calls + 2)} :
        /\ calls + Len(evs) <= MaxCalls
        /\ calls' = calls + Len(evs)
        /\ conc' = [threads |-> [k \in DOMAIN evs |-> Thread(evs[k])],
                    base |-> <<Shared>>]
    /\ UNCHANGED <<index_vars, main_vars, input_map, measurement_value, sent,
                   next_uid, last>>

\* thread k is at statement p
At(k, p) ==
    /\ pc = "loop"
    /\ k \in DOMAIN conc.threads
    /\ conc.threads[k].pc = p

\* the measurement id thread record t is scanning
Cur(t) == measurement_dict[t.i].measid

\* thread k goes on as t
Goes(k, t) == conc' = [conc EXCEPT !.threads[k] = t]

\* lines 116-125 for the next item, then lines 128 and 144
CmdItem(k) ==
    /\ At(k, "cmd")
    /\ LET t == conc.threads[k]
       IN  IF t.i > Len(t.ev.items)
              THEN /\ Goes(k, [t EXCEPT !.pc = "done"])
                   /\ UNCHANGED <<input_map, next_uid>>
              ELSE LET c == CommandStep([input_map |-> input_map,
                                         next_uid |-> next_uid, fault |-> FALSE],
                                        t.ev.items[t.i], t.ev.actor)
                   IN  /\ input_map' = c.input_map
                       /\ next_uid' = c.next_uid
                       /\ Goes(k, [t EXCEPT !.i = @ + 1,
                                            !.pc = IF c.fault THEN "raised"
                                                   ELSE "cmd"])
    /\ UNCHANGED <<index_vars, main_vars, measurement_value, sent, calls, last>>

\* lines 130-131: the next key of measurement_dict, and whether it has a
\* snapshot value
ScanNext(k) ==
    /\ At(k, "scan")
    /\ LET t == conc.threads[k]
       IN  Goes(k, [t EXCEPT !.pc =
                IF t.i > Len(measurement_dict) THEN "publish"
                ELSE IF Cur(t) \notin DOMAIN measurement_value THEN "record"
                ELSE "compare"])
    /\ UNCHANGED <<index_vars, main_vars, input_map, measurement_value, sent,
                   next_uid, calls, last>>

\* line 132
Record(k) ==
    /\ At(k, "record")
    /\ LET t == conc.threads[k]
           ms == t.ev.msg.measurements
       IN  IF Cur(t) \notin DOMAIN ms
              THEN /\ Goes(k, [t EXCEPT !.pc = "raised"])
                   /\ UNCHANGED measurement_value
              ELSE /\ measurement_value' =
                          DictPut(measurement_value, Cur(t), ms[Cur(t)])
                   /\ Goes(k, [t EXCEPT !.pc = "scan", !.i = @ + 1])
    /\ UNCHANGED <<index_vars, main_vars, input_map, sent, next_uid, calls, last>>

\* line 134
Compare(k) ==
    /\ At(k, "compare")
    /\ LET t == conc.threads[k]
           ms == t.ev.msg.measurements
       IN  Goes(k, IF Cur(t) \notin DOMAIN ms THEN [t EXCEPT !.pc = "raised"]
                   ELSE IF measurement_value[Cur(t)] = ms[Cur(t)]
                           THEN [t EXCEPT !.pc = "scan", !.i = @ + 1]
                   ELSE [t EXCEPT !.pc = "update"])
    /\ UNCHANGED <<index_vars, main_vars, input_map, measurement_value, sent,
                   next_uid, calls, last>>

\* lines 136-137
Update(k) ==
    /\ At(k, "update")
    /\ LET t == conc.threads[k]
       IN  /\ measurement_value' =
                  DictPut(measurement_value, Cur(t), t.ev.msg.measurements[Cur(t)])
           /\ Goes(k, [t EXCEPT !.pc = IF Cur(t) \in DOMAIN meas_eq_map
                                          THEN "lookup" ELSE "raised"])
    /\ UNCHANGED <<index_vars, main_vars, input_map, sent, next_uid, calls, last>>

\* line 138
Lookup(k) ==
    /\ At(k, "lookup")
    /\ LET t == conc.threads[k]
       IN  Goes(k, IF meas_eq_map[Cur(t)] \in DOMAIN input_map
                      THEN [t EXCEPT !.pc = "take"]
                      ELSE [t EXCEPT !.pc = "scan", !.i = @ + 1])
    /\ UNCHANGED <<index_vars, main_vars, input_map, measurement_value, sent,
                   next_uid, calls, last>>

\* line 139: KeyError when another call deleted the entry since line 138
Take(k) ==
    /\ At(k, "take")
    /\ LET t == conc.threads[k]
           e == meas_eq_map[Cur(t)]
       IN  Goes(k, IF e \in DOMAIN input_map
                      THEN [t EXCEPT !.pc = "del", !.alarm = <<input_map[e]>>]
                      ELSE [t EXCEPT !.pc = "raised"])
    /\ UNCHANGED <<index_vars, main_vars, input_map, measurement_value, sent,
                   next_uid, calls, last>>

\* lines 140-142: KeyError when another call deleted the entry since line 139
Del(k) ==
    /\ At(k, "del")
    /\ LET t == conc.threads[k]
           e == meas_eq_map[Cur(t)]
       IN  IF e \in DOMAIN input_map
              THEN /\ input_map' = DictDel(input_map, e)
                   /\ Goes(k, [t EXCEPT
                          !.pc = "scan", !.i = @ + 1,
                          !.alarm_list = Append(@, Stamp(t.alarm[1],
                                                         t.ev.msg.timestamp))])
              ELSE /\ Goes(k, [t EXCEPT !.pc = "raised"])
                   /\ UNCHANGED input_map
    /\ UNCHANGED <<index_vars, main_vars, measurement_value, sent, next_uid,
                   calls, last>>

\* lines 144-146
Publish(k) ==
    /\ At(k, "publish")
    /\ LET t == conc.threads[k]
       IN  /\ sent' = IF Len(t.alarm_list) # 0 THEN Append(sent, t.alarm_list)
                      ELSE sent
           /\ Goes(k, [t EXCEPT !.pc = "done"])
    /\ UNCHANGED <<index_vars, main_vars, input_map, measurement_value,
                   next_uid, calls, last>>

Threads == {1, 2}

\* the engine after a bootstrap in which every measurement resolved and
\* every equipment got phases, so that no call raises when it runs alone
InitConc ==
    /\ Init
    /\ Tracked \subseteq DOMAIN meas_eq_map
    /\ DOMAIN equipment_dict \subseteq DOMAIN eq_phases_map

NextConc ==
    \/ Start
    \/ \E k \in Threads : CmdItem(k)
    \/ \E k \in Threads : ScanNext(k)
    \/ \E k \in Threads : Record(k)
    \/ \E k \in Threads : Compare(k)
    \/ \E k \in Threads : Update(k)
    \/ \E k \in Threads : Lookup(k)
    \/ \E k \in Threads : Take(k)
    \/ \E k \in Threads : Del(k)
    \/ \E k \in Threads : Publish(k)

SpecConc == InitConc /\ [][NextConc]_vars

(***************************************************************************)
(* Properties                                                              *)
(***************************************************************************)
Both == {"input", "output"}

\* the call just made handled a measurement event
OutputCall == calls' = calls + 1 /\ last'.kind = "output"

\* the call just made handled a command event
InputCall == calls' = calls + 1 /\ last'.kind = "input"

\* where in the published batches the command instance u appears
Positions(u) ==
    UNION {{<<i, j>> : j \in {k \in DOMAIN sent[i] : sent[i][k].uid = u}} :
              i \in DOMAIN sent}

\* C1 (at-most-once): every command instance ever created appears in at most
\* one published alarm over the whole run, and an instance that was
\* published is no longer in the Pending Command Table.
C1_AtMostOnce ==
    \A u \in 1..(next_uid - 1) :
        /\ Cardinality(Positions(u)) <= 1
        /\ Positions(u) # {} => \A e \in DOMAIN input_map : input_map[e].uid # u

\* C1 witness: after a command of an equipment was published, a later
\* measurement event changed a measurement of that equipment again and
\* published nothing.
C1_Witness ==
    /\ last.kind = "output" /\ ~last.fault /\ last.publishes = 0
    /\ \E i \in DOMAIN sent : \E j \in DOMAIN sent[i] : \E m \in last.changed :
        /\ m \in DOMAIN meas_eq_map
        /\ meas_eq_map[m] = sent[i][j].equipment_mrid
        /\ meas_eq_map[m] \notin DOMAIN input_map

\* C2 (exactly once per resolved command), as claimed: every command that a
\* measurement-event call removes from the Pending Command Table is in the
\* batch that call publishes.
C2_RemovedIsPublished ==
    [][OutputCall =>
        \A e \in DOMAIN input_map :
            e \notin DOMAIN input_map' =>
                /\ last'.publishes = 1
                /\ Len(sent') = Len(sent) + 1
                /\ \E j \in DOMAIN sent'[Len(sent')] :
                       sent'[Len(sent')][j].uid = input_map[e].uid]_vars

\* what on_message would do with a measurement event reporting mm
Scan(mm) == OnMessage("output", "simulation", << >>, OutputMsg(mm))

\* what on_message would do with a command event
Command(actor, items) == OnMessage("input", actor, items, NoMsg)

\* the tracked measurements mapped to equipment e
MeasOf(e) == {m \in DOMAIN meas_eq_map : meas_eq_map[m] = e}

\* some measurement of e with a baseline has another value after the call
\* that left the snapshot mv
ChangeOf(e, mv) ==
    \E m \in MeasOf(e) \cap DOMAIN measurement_value :
        mv[m] # measurement_value[m]

\* C3 (no-baseline): in every measurement event, what the handler records
\* for a measurement without a snapshot value is the reported value (it is
\* recorded whenever the call returns), and every command the call removes
\* or puts in its alarm list belongs to an equipment one of whose
\* measurements already had a snapshot value and changed: a first
\* observation never removes or alarms a pending command.
C3_NoBaseline ==
    \A mm \in MeasMaps :
        LET r == Scan(mm)
        IN  /\ \A m \in DOMAIN r.measurement_value \ DOMAIN measurement_value :
                  m \in DOMAIN mm /\ r.measurement_value[m] = mm[m]
            /\ ~r.fault =>
                  (DOMAIN mm) \ DOMAIN measurement_value
                      \subseteq DOMAIN r.measurement_value
            /\ \A e \in DOMAIN input_map :
                  e \notin DOMAIN r.input_map => ChangeOf(e, r.measurement_value)
            /\ \A j \in DOMAIN r.alarm_list :
                  ChangeOf(r.alarm_list[j].equipment_mrid, r.measurement_value)

\* C3 witness: a measurement event gave a measurement its first snapshot
\* value while a command was pending for its equipment; the command is
\* still pending and no alarm was matched.
C3_Witness ==
    /\ last.kind = "output" /\ last.alarm_list = << >>
    /\ \E m \in last.baselined :
        m \in DOMAIN meas_eq_map /\ meas_eq_map[m] \in DOMAIN input_map

\* C4 (overwrite), as claimed: the table holds one command per equipment; an
\* accepted command for an equipment that has a pending one replaces it by
\* a new instance; the next measurement event that changes a measurement of
\* the equipment publishes an alarm with the value and actor of the command
\* then in the table; and a published alarm is always the command then in
\* the table, never one that was replaced.
C4_Overwrite ==
    [][/\ \A e \in DOMAIN input_map' : input_map'[e].equipment_mrid = e
       /\ InputCall =>
            \A e \in DOMAIN input_map :
                /\ e \in DOMAIN input_map'
                /\ input_map'[e] # input_map[e] => input_map'[e].uid >= next_uid
       /\ OutputCall =>
            /\ \A e \in DOMAIN input_map :
                  ChangeOf(e, measurement_value') =>
                      /\ last'.publishes = 1
                      /\ Len(sent') = Len(sent) + 1
                      /\ \E j \in DOMAIN sent'[Len(sent')] :
                            LET a == sent'[Len(sent')][j]
                            IN  /\ a.uid = input_map[e].uid
                                /\ a.value = input_map[e].value
                                /\ a.created_by = input_map[e].created_by
            /\ Len(sent') = Len(sent) + 1 =>
                  \A j \in DOMAIN sent'[Len(sent')] :
                      LET a == sent'[Len(sent')][j]
                      IN  /\ a.equipment_mrid \in DOMAIN input_map
                          /\ a.uid = input_map[a.equipment_mrid].uid]_vars

\* an item the command loop skips
Filtered(item) ==
    \/ item.attribute \notin TrackedAttributes
    \/ item.object \notin DOMAIN equipment_dict

\* C5 (filter): every key of the Pending Command Table is in the equipment
\* directory and names its own entry; a command event changes or creates an
\* entry only for an equipment named by one of its items with a tracked
\* attribute; a command event all of whose items have another attribute or
\* an object outside the directory leaves the table unchanged.
C5_Filter ==
    /\ \A e \in DOMAIN input_map :
          e \in DOMAIN equipment_dict /\ input_map[e].equipment_mrid = e
    /\ \A actor \in Actors, items \in ItemSeqs :
          LET r == Command(actor, items)
          IN  /\ \A e \in DOMAIN r.input_map :
                    (e \notin DOMAIN input_map \/ r.input_map[e] # input_map[e]) =>
                        \E i \in DOMAIN items :
                            /\ items[i].object = e
                            /\ items[i].attribute \in TrackedAttributes
                            /\ e \in DOMAIN equipment_dict
              /\ (\A i \in DOMAIN items : Filtered(items[i])) =>
                    r.input_map = input_map /\ r.next_uid = next_uid

\* C5 witness: a command event made only of skipped items was handled while
\* the table held a command, and the table still holds it.
C5_Witness ==
    /\ last.kind = "input" /\ last.items # << >>
    /\ \A i \in DOMAIN last.items : Filtered(last.items[i])
    /\ input_map # EmptyDict

\* C6 (idempotent re-observation): a measurement event in which every
\* tracked measurement reports the value the snapshot already holds leaves
\* the snapshot and the Pending Command Table unchanged, matches no alarm
\* and publishes nothing.
C6_Reobservation ==
    \A mm \in MeasMaps :
        (\A m \in Tracked :
            /\ m \in DOMAIN mm
            /\ m \in DOMAIN measurement_value
            /\ mm[m] = measurement_value[m]) =>
        LET r == Scan(mm)
        IN  /\ r.measurement_value = measurement_value
            /\ r.input_map = input_map
            /\ r.alarm_list = << >>
            /\ ~r.publish /\ ~r.fault

\* C6 witness: a measurement event repeated every snapshot value while a
\* command was pending for an equipment with tracked measurements.
C6_Witness ==
    /\ last.kind = "output" /\ ~last.fault
    /\ last.baselined = {} /\ last.changed = {}
    /\ \E e \in DOMAIN input_map : MeasOf(e) # {}

\* C7 (unprompted change), as claimed: when a measurement event reports for
\* a tracked measurement a value other than its snapshot value and the
\* equipment of the measurement has no pending command, the handler matches
\* no alarm for that equipment, the snapshot holds the new value afterwards,
\* and the table is as before (commands of equipment none of whose
\* measurements changed are untouched).
C7_UnpromptedChange ==
    \A mm \in MeasMaps : \A m \in Tracked \cap DOMAIN meas_eq_map :
        (/\ m \in DOMAIN mm
         /\ m \in DOMAIN measurement_value
         /\ mm[m] # measurement_value[m]
         /\ meas_eq_map[m] \notin DOMAIN input_map) =>
        LET r == Scan(mm)
        IN  /\ r.measurement_value[m] = mm[m]
            /\ \A j \in DOMAIN r.alarm_list :
                  r.alarm_list[j].equipment_mrid # meas_eq_map[m]
            /\ meas_eq_map[m] \notin DOMAIN r.input_map
            /\ \A e \in DOMAIN input_map :
                  ~ChangeOf(e, r.measurement_value) =>
                      e \in DOMAIN r.input_map /\ r.input_map[e] = input_map[e]

\* C8 (alarm content), as claimed: a command event with one accepted item
\* for equipment E by an actor leaves for E an entry with value "Open" if
\* the item's value is 1 and "Close" otherwise, the actor, and the name and
\* phases the index holds for E; and a measurement event that changes the
\* value of a measurement of E that has a baseline publishes exactly one
\* alarm for E, made of the fields of E's entry and the event's timestamp,
\* and leaves no entry for E.
C8_AlarmContent ==
    /\ \A actor \in Actors, item \in CmdItems :
          LET r == Command(actor, <<item>>)
          IN  (~Filtered(item) /\ ~r.fault) =>
                /\ item.object \in DOMAIN r.input_map
                /\ r.input_map[item.object] =
                      [equipment_mrid |-> item.object,
                       value |-> IF item.value = 1 THEN "Open" ELSE "Close",
                       created_by |-> actor,
                       equipment_name |-> equipment_dict[item.object].name,
                       phases |-> eq_phases_map[item.object],
                       uid |-> next_uid]
    /\ \A mm \in MeasMaps : \A e \in DOMAIN input_map : \A m \in MeasOf(e) :
          (/\ m \in DOMAIN mm
           /\ m \in DOMAIN measurement_value
           /\ mm[m] # measurement_value[m]) =>
          LET r == Scan(mm)
              mine == {j \in DOMAIN r.alarm_list :
                          r.alarm_list[j].equipment_mrid = e}
          IN  /\ r.publish
              /\ Cardinality(mine) = 1
              /\ \A j \in mine :
                    r.alarm_list[j] =
                        [equipment_mrid |-> e,
                         value |-> input_map[e].value,
                         created_by |-> input_map[e].created_by,
                         equipment_name |-> equipment_dict[e].name,
                         phases |-> eq_phases_map[e],
                         uid |-> input_map[e].uid,
                         timestamp |-> OutputMsg(mm).timestamp]
              /\ e \notin DOMAIN r.input_map

\* the place in the scan order of the first measurement of equipment e
\* whose snapshot value the step changed
FirstChange(e) ==
    CHOOSE i \in DOMAIN measurement_dict :
        LET Changed(k) ==
                /\ measurement_dict[k].measid \in MeasOf(e)
                /\ measurement_dict[k].measid \in DOMAIN measurement_value
                /\ measurement_value'[measurement_dict[k].measid]
                      # measurement_value[measurement_dict[k].measid]
        IN  Changed(i) /\ \A k \in 1..(i - 1) : ~Changed(k)

\* C9 (single batch), as claimed: a command-event call publishes nothing; a
\* measurement-event call makes no publish call when it matched no command
\* and exactly one when it matched at least one, and that one carries the
\* matched commands (those the call took out of the table), each once, in
\* the order in which the scan matched them.
C9_SingleBatch ==
    [][/\ InputCall => sent' = sent /\ last'.publishes = 0
       /\ OutputCall =>
            LET matched == {input_map[e].uid :
                               e \in DOMAIN input_map \ DOMAIN input_map'}
            IN  /\ last'.publishes \in {0, 1}
                /\ Len(sent') = Len(sent) + last'.publishes
                /\ SubSeq(sent', 1, Len(sent)) = sent
                /\ matched = {} => last'.publishes = 0
                /\ matched # {} =>
                      /\ last'.publishes = 1
                      /\ Len(sent'[Len(sent')]) = Cardinality(matched)
                      /\ {sent'[Len(sent')][j].uid : j \in DOMAIN sent'[Len(sent')]}
                            = matched
                      /\ \A j, k \in DOMAIN sent'[Len(sent')] :
                            j < k =>
                                FirstChange(sent'[Len(sent')][j].equipment_mrid)
                                    < FirstChange(sent'[Len(sent')][k].equipment_mrid)]_vars

\* C10 (initialization failure does not abort), as claimed: once the except
\* clause is left after an exception in the try block, the exception has
\* been logged and _main goes on to construct the engine and to start both
\* subscriptions.
C10_InitFailureProceeds ==
    (caught # "none" /\ pc # "except") =>
        /\ Len(log_sent) = 1
        /\ pc # "crashed"
        /\ pc = "loop" => constructed /\ subscriptions = Both

\* the retained position measurements the index build associated with no
\* equipment
Unresolved == Tracked \ DOMAIN meas_eq_map

\* C11 (unresolvable measurement is filtered), as claimed: a measurement
\* event that reports every tracked measurement, among them one that the
\* index associates with no equipment, is handled without a fault, matches
\* no alarm through that measurement, and publishes the commands of every
\* equipment one of whose measurements changed.
C11_UnresolvableFiltered ==
    \A mm \in MeasMaps :
        (Unresolved # {} /\ DOMAIN mm = Tracked) =>
        LET r == Scan(mm)
        IN  /\ ~r.fault
            /\ Len(r.alarm_list) <= Cardinality(DOMAIN input_map)
            /\ \A e \in DOMAIN input_map :
                  ChangeOf(e, mm) =>
                      /\ r.publish
                      /\ \E j \in DOMAIN r.alarm_list :
                            r.alarm_list[j].uid = input_map[e].uid

\* the index build has run to its end
IndexBuilt == pc \in {"construct", "sub1", "sub2", "loop"} /\ maps_bound

\* C12 (Metadata Index invariant), as claimed: once the index is built,
\* every measurement id of the measurement directory has an entry in the
\* measurement-to-equipment map, and the entry is an equipment id of the
\* equipment directory.
C12_IndexInvariant ==
    IndexBuilt =>
        \A i \in DOMAIN measurement_dict :
            /\ measurement_dict[i].measid \in DOMAIN meas_eq_map
            /\ meas_eq_map[measurement_dict[i].measid] \in DOMAIN equipment_dict

MaxBatch == 3           \* forward differences per command event compared

\* message["input"]["message"]["forward_differences"] of up to MaxBatch items
Batches == UNION {[1..n -> CmdItems] : n \in 0..MaxBatch}

\* the table and the uid counter after the items were delivered one command
\* event each, in order; a call that raises ends that call only
RECURSIVE SeparateEvents(_, _, _)
SeparateEvents(st, items, actor) ==
    IF items = << >> THEN st
    ELSE SeparateEvents(
            CommandLoop([st EXCEPT !.fault = FALSE], <<Head(items)>>, actor),
            Tail(items), actor)

\* C13 (items of one command event are independent), as claimed: the
\* Pending Command Table after a command event with a batch of difference
\* items equals the table after the same items delivered as single-item
\* command events in the same order.
C13_BatchAsSingles ==
    \A actor \in Actors, items \in Batches :
        Command(actor, items).input_map =
            SeparateEvents([input_map |-> input_map, next_uid |-> next_uid,
                            fault |-> FALSE], items, actor).input_map

\* C14 (a faulting measurement event is dropped as a whole), as claimed:
\* when a measurement event lacks the value of a tracked measurement, the
\* handler raises and leaves the Measurement Snapshot and the Pending
\* Command Table as they were before the event, with nothing published.
C14_FaultDropsEvent ==
    \A mm \in MeasMaps :
        Tracked \ DOMAIN mm # {} =>
        LET r == Scan(mm)
        IN  /\ r.fault /\ ~r.publish
            /\ r.measurement_value = measurement_value
            /\ r.input_map = input_map

\* C15 (command events have no other effect): a command-event call leaves
\* the Measurement Snapshot and the four Metadata Index maps unchanged,
\* matches no alarm and publishes nothing, whether it returns or raises.
C15_CommandFrame ==
    [][InputCall =>
        /\ measurement_value' = measurement_value
        /\ UNCHANGED index_vars
        /\ sent' = sent
        /\ last'.publishes = 0 /\ last'.alarm_list = << >>
        /\ last'.baselined = {} /\ last'.changed = {}]_vars

\* C15 witness: a command event put a command in the table while the
\* snapshot held values.
C15_Witness ==
    /\ last.kind = "input" /\ ~last.fault
    /\ last.items # << >>
    /\ \A i \in DOMAIN last.items : ~Filtered(last.items[i])
    /\ measurement_value # EmptyDict
    /\ \E e \in DOMAIN input_map : input_map[e].uid = next_uid - 1

\* the orders in which the keys of the measurement directory can be scanned
ScanOrders ==
    {p \in [DOMAIN measurement_dict -> DOMAIN measurement_dict] :
        \A i, j \in DOMAIN measurement_dict : i # j => p[i] # p[j]}

\* lines 128-146 for the measurement event msg with the directory scanned in
\* the order p
ScanIn(p, msg) ==
    LET s == ScanLoop([measurement_value |-> measurement_value,
                       input_map |-> input_map, alarm_list |-> << >>,
                       fault |-> FALSE],
                      [i \in DOMAIN measurement_dict |-> measurement_dict[p[i]]],
                      msg)
    IN  [input_map |-> s.input_map, measurement_value |-> s.measurement_value,
         alarms |-> IF s.fault THEN {}
                    ELSE {s.alarm_list[j] : j \in DOMAIN s.alarm_list}]

\* C16 (scan-order independence), as claimed: for every state and every
\* measurement event that reports every tracked measurement, any two scan
\* orders give the same set of published alarms, the same resulting Pending
\* Command Table and the same resulting Measurement Snapshot.
C16_ScanOrder ==
    \A mm \in MeasMaps :
        DOMAIN mm = Tracked =>
            \A p, q \in ScanOrders : ScanIn(p, OutputMsg(mm)) = ScanIn(q, OutputMsg(mm))

\* the call just made accepted a command for equipment e
Accepted(e) ==
    /\ InputCall
    /\ \E i \in DOMAIN last'.items :
          /\ last'.items[i].object = e
          /\ ~Filtered(last'.items[i])

\* the call just made handled a measurement event in which a measurement of
\* equipment e differed from its snapshot value
Resolved(e) ==
    /\ OutputCall
    /\ \E m \in MeasOf(e) \cap DOMAIN measurement_value :
          m \in last'.changed /\ measurement_value'[m] # measurement_value[m]

\* C17 (a pending command stays until resolved or overwritten): in every
\* step the table entry of an equipment E either stays as it is, or is
\* replaced by a new command instance in a call that accepted a command for
\* E, or is removed in a measurement-event call in which a measurement
\* mapped to E differed from its snapshot; no other event and no passing of
\* time changes it.
C17_StaysUntilResolved ==
    [][\A e \in DOMAIN input_map :
          \/ e \in DOMAIN input_map' /\ input_map'[e] = input_map[e]
          \/ /\ Accepted(e)
             /\ e \in DOMAIN input_map'
             /\ input_map'[e].uid >= next_uid
          \/ Resolved(e) /\ e \notin DOMAIN input_map']_vars

\* C17 witness: the first command of the run is still pending after at least
\* two later events, the last a measurement event that changed the value of a
\* measurement of another equipment.
C17_Witness ==
    /\ calls >= 3
    /\ last.kind = "output" /\ ~last.fault /\ last.changed # {}
    /\ \E e \in DOMAIN input_map :
          /\ input_map[e].uid = 1
          /\ MeasOf(e) # {}
          /\ MeasOf(e) \cap last.changed = {}

\* C18 (the snapshot tracks the last observation): in every state the
\* snapshot's keys are tracked measurement ids; after a measurement-event
\* call that returns, the snapshot holds for every tracked measurement the
\* value the event reported; whatever the event and however the call ends,
\* no key leaves the snapshot and no untracked id (such as the voltage
\* measurement MV that every event carries) enters it; a command event
\* leaves the snapshot as it is.
C18_SnapshotTracks ==
    /\ DOMAIN measurement_value \subseteq Tracked
    /\ \A mm \in MeasMaps :
          LET r == Scan(mm)
          IN  /\ DOMAIN measurement_value \subseteq DOMAIN r.measurement_value
              /\ DOMAIN r.measurement_value \subseteq Tracked
              /\ "MV" \in DOMAIN OutputMsg(mm).measurements
              /\ "MV" \notin DOMAIN r.measurement_value
              /\ ~r.fault =>
                    /\ DOMAIN r.measurement_value = Tracked
                    /\ \A m \in Tracked : r.measurement_value[m] = mm[m]
    /\ \A actor \in Actors, items \in ItemSeqs :
          Command(actor, items).measurement_value = measurement_value

\* C18 witness: a measurement event that changed the value of a tracked
\* measurement was handled to its end and every tracked measurement has a
\* snapshot value.
C18_Witness ==
    /\ last.kind = "output" /\ ~last.fault
    /\ last.changed # {}
    /\ DOMAIN measurement_value = Tracked

\* one whole call of on_message on the shared state st, nothing interleaved
SerialCall(st, ev) ==
    IF ev.kind = "input"
       THEN LET c == CommandLoop([input_map |-> st.input_map,
                                  next_uid |-> st.next_uid, fault |-> FALSE],
                                 ev.items, ev.actor)
            IN  [st EXCEPT !.input_map = c.input_map, !.next_uid = c.next_uid,
                           !.raised = IF c.fault THEN @ + 1 ELSE @]
       ELSE LET s == ScanLoop([measurement_value |-> st.measurement_value,
                               input_map |-> st.input_map,
                               alarm_list |-> << >>, fault |-> FALSE],
                              measurement_dict, ev.msg)
            IN  [st EXCEPT !.input_map = s.input_map,
                           !.measurement_value = s.measurement_value,
                           !.sent = IF ~s.fault /\ Len(s.alarm_list) # 0
                                       THEN Append(@, s.alarm_list) ELSE @,
                           !.raised = IF s.fault THEN @ + 1 ELSE @]

RECURSIVE SerialCalls(_, _)
SerialCalls(st, evs) ==
    IF evs = << >> THEN st
    ELSE SerialCalls(SerialCall(st, Head(evs)), Tail(evs))

\* a command or an alarm without its identity
NoUid(r) == [f \in DOMAIN r \ {"uid"} |-> r[f]]

\* what a run leaves: the table, the snapshot, the batches published and the
\* number of calls that raised
Outcome(st) ==
    [input_map |-> [e \in DOMAIN st.input_map |-> NoUid(st.input_map[e])],
     measurement_value |-> st.measurement_value,
     sent |-> [i \in DOMAIN st.sent |->
                 [j \in DOMAIN st.sent[i] |-> NoUid(st.sent[i][j])]],
     raised |-> st.raised]

\* the outcomes of the serial orders of the calls that were started together
SerialOutcomes ==
    LET evs == [k \in DOMAIN conc.threads |-> conc.threads[k].ev]
        orders == {p \in [DOMAIN evs -> DOMAIN evs] :
                      \A i, j \in DOMAIN evs : i # j => p[i] # p[j]}
    IN  {Outcome(SerialCalls(conc.base[1], [k \in DOMAIN evs |-> evs[p[k]]])) :
            p \in orders}

\* C19 (mutual exclusion under concurrent dispatch), as claimed: when two
\* events are handled on separate threads, the state the two calls leave
\* (table, snapshot, published batches, calls that raised) is the one some
\* serial order of the two calls leaves.
C19_Serializable ==
    (Quiescent /\ conc.threads # << >>) =>
        Outcome([Shared EXCEPT
                    !.raised = Cardinality({k \in DOMAIN conc.threads :
                                               conc.threads[k].pc = "raised"})])
            \in SerialOutcomes

\* the alarms of equipment e in the alarm list al
AlarmsOf(e, al) == {j \in DOMAIN al : al[j].equipment_mrid = e}

\* C20 (matching is blind to values and to which measurement changed), as
\* claimed: in every measurement event that reports every tracked
\* measurement, a pending command for E is taken out of the table and
\* published, once, as soon as any measurement mapped to E that has a
\* baseline reports another value, whatever that value is and whatever the
\* command's Open/Close value; however many of E's measurements change, E
\* has one alarm; and an equipment without a pending command gets no alarm.
C20_BlindMatch ==
    \A mm \in MeasMaps :
        DOMAIN mm = Tracked =>
        LET r == Scan(mm)
        IN  /\ \A e \in DOMAIN input_map :
                  ChangeOf(e, mm) =>
                      /\ e \notin DOMAIN r.input_map
                      /\ r.publish
                      /\ Cardinality(AlarmsOf(e, r.alarm_list)) = 1
                      /\ \A j \in AlarmsOf(e, r.alarm_list) :
                            /\ r.alarm_list[j].uid = input_map[e].uid
                            /\ r.alarm_list[j].value = input_map[e].value
            /\ \A e \in DOMAIN input_map :
                  ~ChangeOf(e, mm) =>
                      /\ e \in DOMAIN r.input_map
                      /\ AlarmsOf(e, r.alarm_list) = {}
            /\ \A e \in DOMAIN equipment_dict \ DOMAIN input_map :
                  AlarmsOf(e, r.alarm_list) = {}

====
